---- MODULE Spec2Model ----
(***************************************************************************)
(* HybridTorus (gflownet/envs/htorus.py): the hyper-torus environment of a *)
(* GFlowNet sampler.                                                       *)
(*                                                                         *)
(* Angles are modelled exactly, as residues on a circle cut into TwoPi     *)
(* equal arcs: the angle a stands for a * (2*pi / TwoPi) radians, and      *)
(* Python's float % (2 * np.pi) is the integer % TwoPi (TLA+'s % and       *)
(* Python's % both take the sign of the modulus).  Rounding of floating    *)
(* point sums is not modelled.                                             *)
(*                                                                         *)
(* Python lists are functions over 0..len-1, so that state[d] reads as in  *)
(* the source; state[n_dim] is the source's state[-1].  A tuple such as an *)
(* action (dimension, magnitude) is a TLA+ tuple: action[1] is the         *)
(* source's action[0] and action[2] its action[1].                         *)
(***************************************************************************)
EXTENDS Integers, Sequences, FiniteSets, TLC

\* ---------------------------------------------------------------- parameters

\* Dimensionality of the torus (the constructor's default).
n_dim == 2

\* Fixed length of the trajectory.
length_traj == 2

\* Number of arcs the circle is cut into: 2 * np.pi in the model's unit.
TwoPi == 4

\* Index of the terminal ("stop") action.
eos == n_dim

\* The source state's angles: a copy of the angles set by the first reset.
source == [d \in 0..(n_dim - 1) |-> 0]

\* The action space: one entry per dimension, magnitude unspecified (None),
\* and the terminal action.
action_space == [d \in 0..n_dim |-> IF d < n_dim THEN <<d, "None">> ELSE <<eos, 0>>]

\* ------------------------------------------------------------------- inputs

Dims == 0..(n_dim - 1)

\* Angle increments a caller may supply: negative ones, zero, and ones of a
\* full turn or more.
Increments == (0 - TwoPi - 1)..(TwoPi + 1)

\* Actions a caller may supply to step and get_parents.
Actions == (0..n_dim) \X Increments

\* Angles of the states a caller supplies: the source angle, the first arc
\* after it and the last arc before the full turn.  The functions that take
\* a state only compare its angles with the source's.
ArgAngles == {0, 1, TwoPi - 1}

\* States in "GFlowNet format" a caller may supply to the mask functions and
\* to get_logprobs: angles followed by a number of actions.
StateArgs ==
    UNION {{[d \in 0..n_dim |-> IF d < n_dim THEN angles[d] ELSE n] :
               angles \in [Dims -> ArgAngles]} : n \in 0..length_traj}

VARIABLES
    state,      \* self.state: the angles followed by the number of actions
    n_actions,  \* self.n_actions
    done,       \* self.done
    accepted,   \* history: non-terminal actions accepted since the last reset
    n_params_per_dim,   \* self.n_params_per_dim
    policy_outputs,     \* the caller's tensor of policy outputs (one row)
    ret         \* the last call: its name, its arguments and what it returned

vars == <<state, n_actions, done, accepted, n_params_per_dim, policy_outputs, ret>>

\* The environment's own fields, and what sample_actions and get_logprobs read
\* and write besides.
env_vars == <<state, n_actions, done, accepted>>
policy_vars == <<n_params_per_dim, policy_outputs>>

\* ---------------------------------------------------------------- the code

\* reset: self.state = self.angles + [self.n_actions], the angles all 0.0 and
\* n_actions 0.
reset_state == [d \in 0..n_dim |-> 0]

\* Number of angles of s that differ from the source.
\* len([s for s, ss in zip(state[:-1], self.source) if s != ss])
len_noninit_states(s) == Cardinality({d \in Dims : s[d] # source[d]})

\* Variant of get_mask_invalid_actions_forward without the early return for a
\* trajectory that is done.
forward_mask_no_done_return(s, dn) ==
    IF s[n_dim] >= length_traj
    THEN [a \in DOMAIN action_space |-> a # n_dim]
    ELSE [a \in DOMAIN action_space |-> a = n_dim]

\* get_mask_invalid_actions_forward(state, done): TRUE marks an invalid action.
get_mask_invalid_actions_forward(s, dn) ==
    IF dn
    THEN [a \in DOMAIN action_space |-> TRUE]
    ELSE IF s[n_dim] >= length_traj
         THEN [a \in DOMAIN action_space |-> a # n_dim]
         ELSE [a \in DOMAIN action_space |-> a = n_dim]

\* Variant of get_mask_invalid_actions_backward whose elif keeps only its
\* second comparison, len(noninit_states) >= state[-1] - 1.
backward_mask_second_clause_only(s, dn) ==
    LET mask == IF dn
                THEN [a \in DOMAIN action_space |-> a # n_dim]
                ELSE [a \in DOMAIN action_space |-> a = n_dim]
        n    == len_noninit_states(s)
    IN  IF n > s[n_dim]
        THEN mask
        ELSE IF n >= s[n_dim] - 1
             THEN [a \in DOMAIN action_space |->
                     IF a < n_dim
                     THEN (IF s[a] = source[a] THEN TRUE ELSE mask[a])
                     ELSE mask[n_dim]]
             ELSE mask

\* get_mask_invalid_actions_backward(state, done): TRUE marks an invalid action.
\* The branch len(noninit_states) > state[-1] only prints.
get_mask_invalid_actions_backward(s, dn) ==
    LET mask == IF dn
                THEN [a \in DOMAIN action_space |-> a # n_dim]
                ELSE [a \in DOMAIN action_space |-> a = n_dim]
        n    == len_noninit_states(s)
    IN  IF n > s[n_dim]
        THEN mask
        ELSE IF n = s[n_dim] /\ n >= s[n_dim] - 1
             THEN [a \in DOMAIN action_space |->
                     IF a < n_dim
                     THEN (IF s[a] = source[a] THEN TRUE ELSE mask[a])
                     ELSE mask[n_dim]]
             ELSE mask

\* Variant of get_parents that subtracts the increment without wrapping.
get_parents_no_wrap(s, dn, action) ==
    IF dn
    THEN << <<s>>, << <<eos, 0>> >> >>
    ELSE LET s1 == [s EXCEPT ![action[1]] = s[action[1]] - action[2]]
             s2 == [s1 EXCEPT ![n_dim] = s1[n_dim] - 1]
         IN  << <<s2>>, <<action>> >>

\* get_parents(state, done, action): <<parents, actions>>, two lists of the
\* same length.  A state that is not done has one parent: the action undone.
\* The code writes the parent into the list it is given; with state=None that
\* list is a copy of self.state.
get_parents(s, dn, action) ==
    IF dn
    THEN << <<s>>, << <<eos, 0>> >> >>
    ELSE LET s1 == [s EXCEPT ![action[1]] = (s[action[1]] - action[2]) % TwoPi]
             s2 == [s1 EXCEPT ![n_dim] = s1[n_dim] - 1]
         IN  << <<s2>>, <<action>> >>

\* Remainder that takes the sign of the dividend (C's fmod).
fmod(a, b) == IF a >= 0 THEN a % b ELSE 0 - ((0 - a) % b)

\* The result of step's branches, shared by step and its variants.
step_rejected(e, action) ==
    [state |-> e.state, n_actions |-> e.n_actions, done |-> e.done,
     action |-> action, valid |-> FALSE]

step_forced_eos(e) ==
    [state |-> e.state, n_actions |-> e.n_actions + 1, done |-> TRUE,
     action |-> <<eos, 0>>, valid |-> TRUE]

\* Variant of step that adds the increment without wrapping the angle.
step_no_wrap(e, action) ==
    IF e.done THEN step_rejected(e, action)
    ELSE IF e.n_actions = length_traj THEN step_forced_eos(e)
    ELSE IF action[1] # eos
    THEN LET n  == e.n_actions + 1
             s1 == [e.state EXCEPT ![action[1]] = e.state[action[1]] + action[2]]
             s3 == [s1 EXCEPT ![n_dim] = n]
         IN  [state |-> s3, n_actions |-> n, done |-> e.done,
              action |-> action, valid |-> TRUE]
    ELSE step_rejected(e, action)

\* Variant of step that wraps the angle with fmod.
step_fmod(e, action) ==
    IF e.done THEN step_rejected(e, action)
    ELSE IF e.n_actions = length_traj THEN step_forced_eos(e)
    ELSE IF action[1] # eos
    THEN LET n  == e.n_actions + 1
             s1 == [e.state EXCEPT ![action[1]] = e.state[action[1]] + action[2]]
             s2 == [s1 EXCEPT ![action[1]] = fmod(s1[action[1]], TwoPi)]
             s3 == [s2 EXCEPT ![n_dim] = n]
         IN  [state |-> s3, n_actions |-> n, done |-> e.done,
              action |-> action, valid |-> TRUE]
    ELSE step_rejected(e, action)

\* Variant of step whose forced termination performs the supplied action
\* first when it is not the terminal one.
step_force_after_action(e, action) ==
    IF e.done THEN step_rejected(e, action)
    ELSE IF e.n_actions = length_traj /\ action[1] = eos THEN step_forced_eos(e)
    ELSE IF action[1] # eos
    THEN LET n  == e.n_actions + 1
             s1 == [e.state EXCEPT ![action[1]] = e.state[action[1]] + action[2]]
             s2 == [s1 EXCEPT ![action[1]] = s1[action[1]] % TwoPi]
         IN  [state |-> s2, n_actions |-> n, done |-> e.n_actions = length_traj,
              action |-> action, valid |-> TRUE]
    ELSE step_rejected(e, action)

\* Variant of step that accepts the terminal action before the trajectory has
\* its full length.
step_eos_accepted(e, action) ==
    IF e.done THEN step_rejected(e, action)
    ELSE IF e.n_actions = length_traj \/ action[1] = eos THEN step_forced_eos(e)
    ELSE LET n  == e.n_actions + 1
             s1 == [e.state EXCEPT ![action[1]] = e.state[action[1]] + action[2]]
             s2 == [s1 EXCEPT ![action[1]] = s1[action[1]] % TwoPi]
             s3 == [s2 EXCEPT ![n_dim] = n]
         IN  [state |-> s3, n_actions |-> n, done |-> e.done,
              action |-> action, valid |-> TRUE]

\* Variant of step that rejects every call once the trajectory has its full
\* length, without marking it done.
step_never_done(e, action) ==
    IF e.done \/ e.n_actions = length_traj THEN step_rejected(e, action)
    ELSE IF action[1] # eos
    THEN LET n  == e.n_actions + 1
             s1 == [e.state EXCEPT ![action[1]] = e.state[action[1]] + action[2]]
             s2 == [s1 EXCEPT ![action[1]] = s1[action[1]] % TwoPi]
             s3 == [s2 EXCEPT ![n_dim] = n]
         IN  [state |-> s3, n_actions |-> n, done |-> e.done,
              action |-> action, valid |-> TRUE]
    ELSE step_rejected(e, action)

\* Variant of step that leaves out self.state[-1] = self.n_actions.
step_counter_not_written(e, action) ==
    IF e.done THEN step_rejected(e, action)
    ELSE IF e.n_actions = length_traj THEN step_forced_eos(e)
    ELSE IF action[1] # eos
    THEN LET n  == e.n_actions + 1
             s1 == [e.state EXCEPT ![action[1]] = e.state[action[1]] + action[2]]
             s2 == [s1 EXCEPT ![action[1]] = s1[action[1]] % TwoPi]
         IN  [state |-> s2, n_actions |-> n, done |-> e.done,
              action |-> action, valid |-> TRUE]
    ELSE step_rejected(e, action)

\* step(action) on the environment e = [state, n_actions, done]: the
\* environment after the call and the (action, valid) it returns.
step(e, action) ==
    IF e.done
    THEN step_rejected(e, action)
    ELSE IF e.n_actions = length_traj
    THEN step_forced_eos(e)
    ELSE IF action[1] # eos
    THEN LET n  == e.n_actions + 1
             s1 == [e.state EXCEPT ![action[1]] = e.state[action[1]] + action[2]]
             s2 == [s1 EXCEPT ![action[1]] = s1[action[1]] % TwoPi]
             s3 == [s2 EXCEPT ![n_dim] = n]
         IN  [state |-> s3, n_actions |-> n, done |-> e.done,
              action |-> action, valid |-> TRUE]
    ELSE step_rejected(e, action)

\* ------------------------------------------------------------ the operations

Init ==
    /\ state = reset_state
    /\ n_actions = 0
    /\ done = FALSE
    /\ accepted = 0
    /\ n_params_per_dim = 4
    /\ policy_outputs = <<>>
    /\ ret = [op |-> "init"]

Reset ==
    /\ state' = reset_state
    /\ n_actions' = 0
    /\ done' = FALSE
    /\ accepted' = 0
    /\ ret' = [op |-> "reset"]
    /\ UNCHANGED policy_vars

Step ==
    \E action \in Actions :
        LET r == step([state |-> state, n_actions |-> n_actions, done |-> done], action)
        IN  /\ state' = r.state
            /\ n_actions' = r.n_actions
            /\ done' = r.done
            /\ accepted' = IF r.valid /\ r.action[1] # eos THEN accepted + 1 ELSE accepted
            /\ ret' = [op |-> "step", arg |-> action, action |-> r.action, valid |-> r.valid]
            /\ UNCHANGED policy_vars

\* The mask of the environment's own state (state=None, done=None).
MaskForwardSelf ==
    /\ ret' = [op |-> "mask_forward", state |-> state, done |-> done,
               mask |-> get_mask_invalid_actions_forward(state, done)]
    /\ UNCHANGED <<state, n_actions, done, accepted, policy_vars>>

\* The mask of a state the caller supplies.
MaskForwardArg ==
    \E s \in StateArgs, dn \in BOOLEAN :
        /\ ret' = [op |-> "mask_forward", state |-> s, done |-> dn,
                   mask |-> get_mask_invalid_actions_forward(s, dn)]
        /\ UNCHANGED <<state, n_actions, done, accepted, policy_vars>>

MaskBackwardSelf ==
    /\ ret' = [op |-> "mask_backward", state |-> state, done |-> done,
               mask |-> get_mask_invalid_actions_backward(state, done)]
    /\ UNCHANGED <<state, n_actions, done, accepted, policy_vars>>

MaskBackwardArg ==
    \E s \in StateArgs, dn \in BOOLEAN :
        /\ ret' = [op |-> "mask_backward", state |-> s, done |-> dn,
                   mask |-> get_mask_invalid_actions_backward(s, dn)]
        /\ UNCHANGED <<state, n_actions, done, accepted, policy_vars>>

\* get_parents of the environment's own state (state=None, done=None: the
\* call works on a copy of self.state).
GetParentsSelf ==
    \E action \in Actions :
        /\ ret' = [op |-> "get_parents", state |-> state, done |-> done, arg |-> action,
                   parents |-> get_parents(state, done, action)[1],
                   actions |-> get_parents(state, done, action)[2]]
        /\ UNCHANGED <<state, n_actions, done, accepted, policy_vars>>

Next ==
    \/ Reset
    \/ Step
    \/ MaskForwardSelf
    \/ MaskForwardArg
    \/ MaskBackwardSelf
    \/ MaskBackwardArg
    \/ GetParentsSelf

Spec == Init /\ [][Next]_vars

\* ------------------------------------------ sample_actions and get_logprobs
\*
\* Both functions work row by row on a batch (every tensor operation in them
\* is indexed by ns_range): the model holds one row.  A log-probability is
\* kept as the sum the code forms, term by term: each term names the
\* distribution, its parameters as read from the policy output, and the value
\* scored.  Two sums of the same terms are the same number.

\* The value -loginf written over the logits of masked actions.
loginf == 1000

\* The argument mask_invalid_actions=None: a mask over no action.
None == <<>>

IsNone(mask) == DOMAIN mask = {}

\* torch.zeros: the term of an action that adds no log-probability.
Zero == <<"zero">>

\* self.logsoftmax(logits_dims)[ns_range, dimensions]
LogSoftmax(logits_dims, dimension) == <<"logsoftmax", logits_dims, dimension>>

\* VonMises(locations, torch.exp(concentrations) +
\* self.vonmises_concentration_epsilon).log_prob(angles)
VonMisesLogProb(location, concentration, angle) ==
    <<"vonmises", location, concentration, angle>>

\* Uniform(0, 2 * torch.pi).log_prob(angles): the same for every angle.
UniformLogProb(angle) == <<"uniform">>

\* Bernoulli(logits=logits_nosource).log_prob(x)
BernoulliLogProb(logit, x) == <<"bernoulli", logit, x>>

\* len(self.fixed_policy_output)
policy_output_dim == n_dim * n_params_per_dim + 1

\* policy_outputs[:, k :: self.n_params_per_dim][ns_range, d]
Strided(po, k, d) == po[k + d * n_params_per_dim]

\* Number of entries of policy_outputs[:, k :: self.n_params_per_dim].
StridedLen(po, k) ==
    Cardinality({i \in DOMAIN po : i >= k /\ (i - k) % n_params_per_dim = 0})

\* logits_dims = policy_outputs[:, 0 :: self.n_params_per_dim], as values.
LogitsView(po) == [d \in 0..(StridedLen(po, 0) - 1) |-> Strided(po, 0, d)]

\* logits_dims /= temperature_logits: logits_dims is a view, so the division
\* is written into policy_outputs.
DivideLogitsInPlace(po, temperature_logits) ==
    [i \in DOMAIN po |-> IF i % n_params_per_dim = 0
                         THEN po[i] \div temperature_logits
                         ELSE po[i]]

\* logits_dims[mask_invalid_actions] = -loginf on the view: written into
\* policy_outputs.
MaskLogitsInPlace(po, mask) ==
    IF IsNone(mask)
    THEN po
    ELSE [i \in DOMAIN po |-> IF i % n_params_per_dim = 0 /\ mask[i \div n_params_per_dim]
                              THEN 0 - loginf
                              ELSE po[i]]

Max(S) == CHOOSE m \in S : \A x \in S : x <= m

\* The indices Categorical(logits=logits_dims).sample() can return: those
\* whose probability does not underflow to zero, which exp(-loginf) does.
CategoricalSupport(logits_dims) ==
    {d \in DOMAIN logits_dims :
        logits_dims[d] + loginf > Max({logits_dims[c] : c \in DOMAIN logits_dims})}

\* The first half of sample_actions: the logits the dimension is drawn from
\* and the caller's tensor after the in-place writes.  In the uniform mode
\* logits_dims has policy_output_dim columns, and indexing it with a mask of
\* n_dim + 1 columns raises IndexError.
sample_logits(po, sampling_method, mask_invalid_actions, temperature_logits) ==
    IF sampling_method = "uniform"
    THEN [raised |-> ~IsNone(mask_invalid_actions),
          logits_dims |-> [i \in 0..(policy_output_dim - 1) |-> 1],
          policy_outputs |-> po]
    ELSE LET po1 == DivideLogitsInPlace(po, temperature_logits)
             po2 == MaskLogitsInPlace(po1, mask_invalid_actions)
         IN  [raised |-> FALSE, logits_dims |-> LogitsView(po2), policy_outputs |-> po2]

\* The second half of sample_actions, for the dimension and the angle drawn:
\* logprobs = logprobs_dim + logprobs_angles, po being the tensor after the
\* in-place writes.
sample_logprobs(po, sampling_method, logits_dims, dimension, angle) ==
    [logprobs_dim |-> LogSoftmax(logits_dims, dimension),
     logprobs_angles |->
        IF dimension = eos THEN Zero
        ELSE IF sampling_method = "uniform" THEN UniformLogProb(angle)
        ELSE VonMisesLogProb(Strided(po, 1, dimension), Strided(po, 2, dimension), angle),
     logprobs_nosource |-> Zero]

\* Variant of get_logprobs whose nofix_indices leaves out "| is_forward".
get_logprobs_fix_when_forward(po, is_forward, action, states_target, mask_invalid_actions) ==
    LET po1 == MaskLogitsInPlace(po, mask_invalid_actions)
        logits_dims == LogitsView(po1)
        dimension == action[1]
        nsource_ne_nsteps == len_noninit_states(states_target) # states_target[n_dim]
        source_aux == [d \in 0..n_dim |-> IF d < n_dim THEN source[d] ELSE 0 - 1]
    IN  IF dimension \notin DOMAIN logits_dims
        THEN [raised |-> TRUE, policy_outputs |-> po1]
        ELSE LET angledim_ne_source == states_target[dimension] # source_aux[dimension]
                 nofix == (nsource_ne_nsteps \/ angledim_ne_source) /\ dimension # eos
             IN  [raised |-> FALSE, policy_outputs |-> po1,
                  logprobs |->
                    [logprobs_dim |-> LogSoftmax(logits_dims, dimension),
                     logprobs_angles |->
                        IF nofix
                        THEN VonMisesLogProb(Strided(po1, 1, dimension),
                                             Strided(po1, 2, dimension), action[2])
                        ELSE Zero,
                     logprobs_nosource |->
                        IF nofix /\ n_params_per_dim = 4 /\ ~is_forward
                        THEN BernoulliLogProb(Strided(po1, 3, dimension), angledim_ne_source)
                        ELSE Zero]]

\* get_logprobs for one row: logprobs = logprobs_dim + logprobs_angles +
\* logprobs_nosource, and the caller's tensor after the in-place write of the
\* mask.  Indexing the n_dim + 1 logits with a larger dimension raises
\* IndexError.
get_logprobs(po, is_forward, action, states_target, mask_invalid_actions) ==
    LET po1 == MaskLogitsInPlace(po, mask_invalid_actions)
        logits_dims == LogitsView(po1)
        dimension == action[1]
        nsource_ne_nsteps == len_noninit_states(states_target) # states_target[n_dim]
        source_aux == [d \in 0..n_dim |-> IF d < n_dim THEN source[d] ELSE 0 - 1]
    IN  IF dimension \notin DOMAIN logits_dims
        THEN [raised |-> TRUE, policy_outputs |-> po1]
        ELSE LET angledim_ne_source == states_target[dimension] # source_aux[dimension]
                 noeos == dimension # eos
                 nofix == ((nsource_ne_nsteps \/ angledim_ne_source) \/ is_forward) /\ noeos
             IN  [raised |-> FALSE, policy_outputs |-> po1,
                  logprobs |->
                    [logprobs_dim |-> LogSoftmax(logits_dims, dimension),
                     logprobs_angles |->
                        IF nofix
                        THEN VonMisesLogProb(Strided(po1, 1, dimension),
                                             Strided(po1, 2, dimension), action[2])
                        ELSE Zero,
                     logprobs_nosource |->
                        IF nofix /\ n_params_per_dim = 4 /\ ~is_forward
                        THEN BernoulliLogProb(Strided(po1, 3, dimension), angledim_ne_source)
                        ELSE Zero]]

\* ---------------------------------------------- inputs of the two functions

\* Logits a policy may output; each is a multiple of every temperature, so
\* that the division is exact.
LogitValues == {0, 2}

Temperatures == {1, 2}

\* Policy outputs of n_dim * n + 1 entries: any logits, and at every other
\* position a value of its own, so that a parameter read identifies its
\* position.
PolicyOutputs(n) ==
    {[i \in 0..(n_dim * n) |-> IF i % n = 0 THEN logits[i \div n] ELSE 10 + i] :
        logits \in [0..n_dim -> LogitValues]}

\* Masks of invalid actions a caller may supply, None included.
Masks == {None} \cup [0..n_dim -> BOOLEAN]

\* Angles a distribution may return, and a caller may score.
Angles == 0..(TwoPi - 1)

\* ------------------------------------------------- the two functions called

InitLP ==
    /\ state = reset_state
    /\ n_actions = 0
    /\ done = FALSE
    /\ accepted = 0
    /\ n_params_per_dim \in {3, 4}
    /\ policy_outputs \in PolicyOutputs(n_params_per_dim)
    /\ ret = [op |-> "init"]

\* sample_actions on a tensor fresh from the policy.
SampleActions ==
    /\ ret.op = "init"
    /\ \E sampling_method \in {"uniform", "policy"}, mask \in Masks, temperature \in Temperatures :
         LET r == sample_logits(policy_outputs, sampling_method, mask, temperature)
         IN  IF r.raised
             THEN /\ ret' = [op |-> "sample_actions", policy_outputs |-> policy_outputs,
                             sampling_method |-> sampling_method,
                             mask_invalid_actions |-> mask,
                             temperature_logits |-> temperature, raised |-> TRUE]
                  /\ UNCHANGED policy_outputs
             ELSE \E dimension \in CategoricalSupport(r.logits_dims), angle \in Angles :
                    /\ dimension = eos => angle = 0
                    /\ policy_outputs' = r.policy_outputs
                    /\ ret' = [op |-> "sample_actions", policy_outputs |-> policy_outputs,
                               sampling_method |-> sampling_method,
                               mask_invalid_actions |-> mask,
                               temperature_logits |-> temperature, raised |-> FALSE,
                               action |-> <<dimension, angle>>,
                               logprobs |-> sample_logprobs(r.policy_outputs, sampling_method,
                                                            r.logits_dims, dimension, angle)]
    /\ UNCHANGED <<env_vars, n_params_per_dim>>

\* get_logprobs on a tensor fresh from the policy.
GetLogprobs ==
    /\ ret.op = "init"
    /\ \E is_forward \in BOOLEAN, action \in (0..n_dim) \X Angles,
          states_target \in StateArgs, mask \in Masks :
         LET r == get_logprobs(policy_outputs, is_forward, action, states_target, mask)
         IN  /\ policy_outputs' = r.policy_outputs
             /\ ret' = [op |-> "get_logprobs", policy_outputs |-> policy_outputs,
                        is_forward |-> is_forward, action |-> action,
                        states_target |-> states_target, mask_invalid_actions |-> mask,
                        raised |-> r.raised, logprobs |-> r.logprobs]
    /\ UNCHANGED <<env_vars, n_params_per_dim>>

NextLP ==
    \/ SampleActions
    \/ GetLogprobs

SpecLP == InitLP /\ [][NextLP]_vars

\* ------------------------------------------------------------------- claims

\* The step just taken, in an action formula: ret' describes the call.
StepCalled == ret'.op = "step"

\* C1: step with a non-terminal action (d, x) on an environment that is not
\* done and whose counter is below length_traj sets angle d to
\* (old angle + x) modulo 2*pi, leaves the other angles alone, increments the
\* counter by one, keeps done False and returns the action with valid=True.
C1_StepNonTerminal ==
    [][ (StepCalled /\ ~done /\ n_actions < length_traj /\ ret'.arg[1] < n_dim)
        => /\ state'[ret'.arg[1]] = (state[ret'.arg[1]] + ret'.arg[2]) % TwoPi
           /\ \A d \in Dims : d # ret'.arg[1] => state'[d] = state[d]
           /\ n_actions' = n_actions + 1
           /\ state'[n_dim] = state[n_dim] + 1
           /\ done' = FALSE
           /\ ret'.action = ret'.arg
           /\ ret'.valid = TRUE ]_vars

\* A step of more than a full turn was accepted and wrapped.
C1_Witness ==
    /\ ret.op = "step" /\ ret.valid /\ ret.action = ret.arg
    /\ ret.arg[1] = 0 /\ ret.arg[2] = TwoPi + 1
    /\ state[0] = 1 /\ state[n_dim] = 1 /\ ~done

\* C2: step on an environment that is not done and whose counter equals
\* length_traj marks it done, increments the counter (self.n_actions) and
\* returns the terminal action (n_dim, 0.0) with valid=True, whatever the
\* action supplied.
C2_ForcedTermination ==
    [][ (StepCalled /\ ~done /\ n_actions = length_traj)
        => /\ done' = TRUE
           /\ n_actions' = n_actions + 1
           /\ ret'.action = <<n_dim, 0>>
           /\ ret'.valid = TRUE ]_vars

\* A non-terminal action with a non-zero increment was supplied and the
\* terminal action came back.
C2_Witness ==
    /\ ret.op = "step" /\ done /\ ret.valid
    /\ ret.arg[1] < n_dim /\ ret.arg[2] # 0
    /\ ret.action = <<n_dim, 0>>

\* C3: a rejected step changes nothing: on an environment that is done, or
\* with the terminal action while the counter is below length_traj, step
\* returns valid=False and the angles, the counter and done are as before.
C3_RejectedStepNoOp ==
    [][ (StepCalled /\ (done \/ (ret'.arg[1] = eos /\ n_actions < length_traj)))
        => /\ ret'.valid = FALSE
           /\ state' = state
           /\ n_actions' = n_actions
           /\ done' = done ]_vars

\* The terminal action was rejected in the middle of a trajectory.
C3_Witness ==
    /\ ret.op = "step" /\ ~ret.valid /\ ret.arg[1] = eos
    /\ ~done /\ n_actions = 1 /\ state[n_dim] = 1

C5_FixedLength ==
    /\ [](accepted <= length_traj /\ (done => accepted = length_traj))
    /\ [][ /\ (done' /\ ~done) => (StepCalled /\ accepted = length_traj)
           /\ (StepCalled /\ ~done /\ accepted = length_traj) => done'
           /\ (StepCalled /\ ~done /\ accepted < length_traj) => ~done' ]_vars

\* A trajectory ended, by a step that returned the terminal action.
C5_Witness ==
    /\ done /\ accepted = length_traj /\ n_actions = length_traj + 1
    /\ ret.op = "step" /\ ret.action[1] = eos

\* C6 as stated: the forward mask leaves the terminal action as the only
\* valid one whenever the counter has reached length_traj or the trajectory
\* is done, and otherwise marks the non-terminal actions valid and the
\* terminal one invalid.  Stated of the environment's own state.
C6_Original ==
    (ret.op = "mask_forward" /\ ret.state = state /\ ret.done = done)
    => IF ret.state[n_dim] >= length_traj \/ ret.done
       THEN (\A d \in Dims : ret.mask[d] = TRUE) /\ ret.mask[n_dim] = FALSE
       ELSE (\A d \in Dims : ret.mask[d] = FALSE) /\ ret.mask[n_dim] = TRUE

\* C6, amended: when the trajectory is done the forward mask marks every
\* action invalid, the terminal one included; when it is not done and the
\* counter has reached length_traj the terminal action is the only valid one;
\* otherwise the non-terminal actions are valid and the terminal one invalid.
C6_ForwardMask ==
    ret.op = "mask_forward"
    => /\ DOMAIN ret.mask = 0..n_dim
       /\ ret.done => \A a \in 0..n_dim : ret.mask[a] = TRUE
       /\ (~ret.done /\ ret.state[n_dim] >= length_traj)
          => (\A d \in Dims : ret.mask[d] = TRUE) /\ ret.mask[n_dim] = FALSE
       /\ (~ret.done /\ ret.state[n_dim] < length_traj)
          => (\A d \in Dims : ret.mask[d] = FALSE) /\ ret.mask[n_dim] = TRUE

\* The forward mask of an environment whose trajectory is done.
C6_Witness ==
    /\ ret.op = "mask_forward" /\ ret.state = state /\ ret.done = done
    /\ done /\ state[n_dim] = length_traj
    /\ ret.mask[n_dim] = TRUE

\* C7: the backward mask marks the terminal action valid exactly when done
\* (and then every non-terminal action invalid); when not done, every
\* non-terminal dimension is valid, except that when the number of angles
\* that differ from the source equals the counter, each dimension whose angle
\* equals its source angle is invalid.
C7_BackwardMask ==
    ret.op = "mask_backward"
    => /\ DOMAIN ret.mask = 0..n_dim
       /\ ret.mask[n_dim] = FALSE <=> ret.done
       /\ ret.done => \A d \in Dims : ret.mask[d] = TRUE
       /\ ~ret.done
          => \A d \in Dims :
                ret.mask[d] = TRUE
                <=> (/\ Cardinality({c \in Dims : ret.state[c] # source[c]}) = ret.state[n_dim]
                     /\ ret.state[d] = source[d])

\* After one step, the dimension still at its source angle is masked and the
\* dimension that moved is not.
C7_Witness ==
    /\ ret.op = "mask_backward" /\ ret.state = state /\ ret.done = done
    /\ ~done /\ state[n_dim] = 1
    /\ \E d \in Dims : ret.mask[d] = TRUE /\ state[d] = source[d]
    /\ \E d \in Dims : ret.mask[d] = FALSE /\ state[d] # source[d]

\* C8: get_parents returns exactly one (parent, action) pair and inverts
\* step: a done state's parent is the state itself with the terminal action;
\* for the state a valid non-terminal step with action a has just produced,
\* get_parents(state, done=False, a) returns the state before the step,
\* paired with a.
C8_ParentsInvertStep ==
    /\ [](ret.op = "get_parents"
          => /\ Len(ret.parents) = 1 /\ Len(ret.actions) = 1
             /\ ret.done => ret.parents[1] = ret.state /\ ret.actions[1] = <<n_dim, 0>>
             /\ ~ret.done => ret.actions[1] = ret.arg)
    /\ [][ (StepCalled /\ ret'.valid /\ ret'.action[1] # eos)
           => get_parents(state', FALSE, ret'.action) = << <<state>>, <<ret'.action>> >> ]_vars

\* get_parents undid an increment of more than a full turn and returned the
\* source state.
C8_Witness ==
    /\ ret.op = "get_parents" /\ ret.state = state /\ ~ret.done
    /\ state[n_dim] = 1 /\ ret.arg[1] < n_dim /\ ret.arg[2] > TwoPi
    /\ ret.parents[1] = reset_state

\* C9 as stated: for every reachable state that is not done and every
\* backward action whose dimension the backward mask marks valid, with any
\* increment, the parent get_parents returns has no more angles differing
\* from the source than its counter.
C9_ParentsSatisfyMask ==
    ~done
    => \A d \in Dims, x \in Increments :
          get_mask_invalid_actions_backward(state, FALSE)[d] = FALSE
          => LET parent == get_parents(state, FALSE, <<d, x>>)[1][1]
             IN  Cardinality({c \in Dims : parent[c] # source[c]}) <= parent[n_dim]

\* C10 as stated: the log-probability sample_actions returns for the action
\* it sampled equals the one get_logprobs returns for the same policy output,
\* action, mask and state, for every sampling mode and every direction flag.
C10_Original ==
    (ret.op = "sample_actions" /\ ~ret.raised)
    => \A is_forward \in BOOLEAN, states_target \in StateArgs :
          LET g == get_logprobs(ret.policy_outputs, is_forward, ret.action,
                                states_target, ret.mask_invalid_actions)
          IN  ~g.raised /\ g.logprobs = ret.logprobs

\* C10, amended: for an action sampled in the "policy" mode with
\* temperature_logits = 1, get_logprobs evaluated forward (is_forward=True)
\* on the same policy output (as passed, or as left by sample_actions), action
\* and mask returns, for every target state, the log-probability
\* sample_actions returned: the masked dimension term plus, for a
\* non-terminal action, the von Mises angle term.
C10_ForwardPolicyLogprobs ==
    (/\ ret.op = "sample_actions" /\ ~ret.raised
     /\ ret.sampling_method = "policy" /\ ret.temperature_logits = 1)
    => \A states_target \in StateArgs, po \in {ret.policy_outputs, policy_outputs} :
          LET g == get_logprobs(po, TRUE, ret.action, states_target,
                                ret.mask_invalid_actions)
          IN  ~g.raised /\ g.logprobs = ret.logprobs

\* A non-terminal action was sampled from the policy under a mask that hides
\* the terminal action, with the Bernoulli parameter enabled.
C10_Witness ==
    /\ ret.op = "sample_actions" /\ ~ret.raised
    /\ ret.sampling_method = "policy" /\ ret.temperature_logits = 1
    /\ n_params_per_dim = 4
    /\ ~IsNone(ret.mask_invalid_actions) /\ ret.mask_invalid_actions[eos]
    /\ ret.action[1] # eos
    /\ ret.logprobs.logprobs_angles # Zero

\* C11 as stated: sample_actions and get_logprobs never change the policy
\* output they are given: after the call every entry of the caller's
\* policy_outputs has the value it had before (ret.policy_outputs).
C11_PolicyOutputsUnchanged ==
    (ret.op \in {"sample_actions", "get_logprobs"})
    => policy_outputs = ret.policy_outputs

\* C12 as stated: every action sample_actions returns, in both sampling
\* modes, has a dimension in [0, n_dim], and with a mask supplied the
\* dimension is never one the mask marks invalid.
C12_SampledDimensionValid ==
    (ret.op = "sample_actions" /\ ~ret.raised)
    => /\ ret.action[1] \in 0..n_dim
       /\ IsNone(ret.mask_invalid_actions) \/ ~ret.mask_invalid_actions[ret.action[1]]

\* C13: in every state reachable from reset by step calls, the number of
\* angles that differ from the source is at most the state's counter, so
\* the printing branch of get_mask_invalid_actions_backward is not taken for
\* the environment's own state.
C13_NonSourceAtMostCounter ==
    Cardinality({d \in Dims : state[d] # source[d]}) <= state[n_dim]

\* The backward mask was computed for the environment's own state at the end
\* of a trajectory in which every step moved another dimension away from the
\* source: as many angles differ from the source as steps were taken.
C13_Witness ==
    /\ ret.op = "mask_backward" /\ ret.state = state /\ ret.done = done
    /\ ~done /\ state[n_dim] = n_dim
    /\ \A d \in Dims : state[d] # source[d]

\* C14 as stated: get_logprobs evaluated backward with n_params_per_dim = 4
\* returns, for a non-terminal action, the dimension term plus
\* log p(angle) + log p(no_source) when the target state's angle at the acted
\* dimension differs from the source, and log p(source) alone, without the
\* von Mises term, when it equals the source; for a terminal action and for
\* forward evaluation it adds no Bernoulli term.
C14_BackwardMixedAngleTerm ==
    (ret.op = "get_logprobs" /\ ~ret.raised /\ n_params_per_dim = 4)
    => LET d  == ret.action[1]
           po == ret.policy_outputs
           lp == ret.logprobs
       IN  /\ (d = eos \/ ret.is_forward) => lp.logprobs_nosource = Zero
           /\ (d # eos /\ ~ret.is_forward /\ ret.states_target[d] # source[d])
              => /\ lp.logprobs_angles =
                        VonMisesLogProb(Strided(po, 1, d), Strided(po, 2, d), ret.action[2])
                 /\ lp.logprobs_nosource = BernoulliLogProb(Strided(po, 3, d), TRUE)
           /\ (d # eos /\ ~ret.is_forward /\ ret.states_target[d] = source[d])
              => /\ lp.logprobs_angles = Zero
                 /\ lp.logprobs_nosource = BernoulliLogProb(Strided(po, 3, d), FALSE)

====
